---------------------------- MODULE Spec2Model ----------------------------
(***************************************************************************)
(* A model of spellchecker/utils.py: the deprecation decorators            *)
(* (fail_after, deprecated), the input normalizer (ensure_unicode), the    *)
(* codec layer (load_file, write_file over plain and gzip storage) and     *)
(* the tokenizer (_parse_into_words).                                      *)
(*                                                                         *)
(* Text is a sequence of Unicode code points, bytes a sequence of          *)
(* integers in 0..255.  The codecs, the newline translation of text-mode   *)
(* streams and the gzip framing are modelled by what they do to these      *)
(* sequences.  Each component has its own specification; the variables of  *)
(* the other components stay at their idle value.                          *)
(***************************************************************************)
EXTENDS Integers, Sequences, FiniteSets, TLC

VARIABLES
    \* codec layer
    locale,            \* the platform's preferred text encoding
    fs,                \* the file system: path string -> bytes, or NoFile
    written,           \* path string -> arguments of the last successful write_file
    ctx,               \* stack of load_file contexts the caller is inside of
    handles,           \* stream handles currently open
    res,               \* outcome of the last write_file / load_file step
    \* input normalizer
    eu_origin,         \* how the argument was built: text, codec, shape
    eu_value,          \* ensure_unicode's value argument
    eu_encoding,       \* ensure_unicode's encoding argument
    eu_first,          \* outcome of the first call
    eu_result,         \* outcome of the latest call
    eu_pc,
    \* tokenizer
    text,              \* _parse_into_words' argument
    words,             \* its result
    tok_pc,
    \* deprecated
    deprecated_items,  \* wrapper -> function_wrapper.deprecated_items
    warnings_issued,   \* wrapper -> number of DeprecationWarnings issued
    calls,             \* wrapper -> number of calls of the wrapper
    invoked,           \* wrapper -> number of invocations of the wrapped function
    last_call,         \* the latest call of a wrapper and what it did
    \* fail_after
    version,           \* fail_after's argument
    current_version,   \* spellchecker.info.__version__
    test_runs,         \* number of times the test body ran
    test_outcome       \* what test_inner did

codec_vars == <<locale, fs, written, ctx, handles, res>>
eu_vars    == <<eu_origin, eu_value, eu_encoding, eu_first, eu_result, eu_pc>>
tok_vars   == <<text, words, tok_pc>>
dep_vars   == <<deprecated_items, warnings_issued, calls, invoked, last_call>>
ver_vars   == <<version, current_version, test_runs, test_outcome>>
vars       == <<codec_vars, eu_vars, tok_vars, dep_vars, ver_vars>>

None == "None"

\* the value slot of a call that raised
NoValue == [type |-> "NoneType", v |-> <<>>]

(***************************************************************************)
(* Generic helpers                                                         *)
(***************************************************************************)
\* all sequences over S of length at most n
SeqsUpTo(S, n) == UNION {[1..k -> S] : k \in 0..n}

Range(s) == {s[i] : i \in DOMAIN s}

(***************************************************************************)
(* Tokenizer: re.findall(r"(\w[\w']*\w|\w)", text)                         *)
(***************************************************************************)
Apostrophe == 39

\* \w on str patterns, for code points below 256: alphanumerics and "_"
WordChars ==
    (48..57) \cup (65..90) \cup {95} \cup (97..122)
    \cup {170, 178, 179, 181, 185, 186, 188, 189, 190}
    \cup (192..214) \cup (216..246) \cup (248..255)

IsWordChar(c) == c \in WordChars

\* [\w']
IsWordOrApostrophe(c) == IsWordChar(c) \/ c = Apostrophe

\* greedy [\w']* started at position i: the last position it consumes
\* (i - 1 when it consumes nothing)
RECURSIVE GreedyEnd(_, _)
GreedyEnd(t, i) ==
    IF i <= Len(t) /\ IsWordOrApostrophe(t[i]) THEN GreedyEnd(t, i + 1) ELSE i - 1

\* a mutated back-off, as for the pattern \w[\w']+ : no final \w is required
BackOffAnyChar(t, i, k) == IF k > i THEN k ELSE 0

\* backtracking of [\w']* until the closing \w matches: the greatest position
\* k' in i+1..k holding a word character, 0 when there is none
RECURSIVE BackOff(_, _, _)
BackOff(t, i, k) ==
    IF k <= i THEN 0
    ELSE IF IsWordChar(t[k]) THEN k
    ELSE BackOff(t, i, k - 1)

\* the pattern tried at position i: end of the match, 0 when it does not match
MatchAt(t, i) ==
    IF ~IsWordChar(t[i]) THEN 0
    ELSE LET long == BackOff(t, i, GreedyEnd(t, i + 1))
         IN  IF long # 0 THEN long      \* \w[\w']*\w
             ELSE i                     \* \w

\* findall: leftmost non-overlapping matches from position pos on
RECURSIVE FindAll(_, _)
FindAll(t, pos) ==
    IF pos > Len(t) THEN <<>>
    ELSE LET e == MatchAt(t, pos)
         IN  IF e = 0 THEN FindAll(t, pos + 1)
             ELSE <<SubSeq(t, pos, e)>> \o FindAll(t, e + 1)

parse_into_words(t) == FindAll(t, 1)

(***************************************************************************)
(* Codecs: str.encode / bytes.decode with errors="strict", for code points *)
(* below 65536 (UTF-8 sequences of one to three bytes).                    *)
(***************************************************************************)
Encodings == {"utf-8", "latin-1", "ascii"}

Encodable(c, e) ==
    CASE e = "utf-8"   -> c < 65536 /\ c \notin 55296..57343
      [] e = "latin-1" -> c < 256
      [] e = "ascii"   -> c < 128

EncodeChar(c, e) ==
    IF e = "utf-8"
    THEN IF c < 128 THEN <<c>>
         ELSE IF c < 2048 THEN <<192 + (c \div 64), 128 + (c % 64)>>
         ELSE <<224 + (c \div 4096), 128 + ((c \div 64) % 64), 128 + (c % 64)>>
    ELSE <<c>>

RECURSIVE EncodeAll(_, _)
EncodeAll(s, e) ==
    IF s = <<>> THEN <<>> ELSE EncodeChar(Head(s), e) \o EncodeAll(Tail(s), e)

\* str.encode: the bytes, or UnicodeEncodeError
encode(s, e) ==
    IF \A i \in DOMAIN s : Encodable(s[i], e)
    THEN [ok |-> TRUE, bytes |-> EncodeAll(s, e)]
    ELSE [ok |-> FALSE, bytes |-> <<>>]

IsContinuation(b) == b \in 128..191

\* the length of the UTF-8 sequence that starts at b[i], 0 when it is invalid
Utf8SeqLen(b, i) ==
    IF b[i] < 128 THEN 1
    ELSE IF b[i] \in 194..223
         THEN IF i + 1 <= Len(b) /\ IsContinuation(b[i + 1]) THEN 2 ELSE 0
    ELSE IF b[i] \in 224..239
         THEN IF /\ i + 2 <= Len(b)
                 /\ IsContinuation(b[i + 1])
                 /\ IsContinuation(b[i + 2])
                 /\ (b[i] = 224 => b[i + 1] >= 160)
                 /\ (b[i] = 237 => b[i + 1] < 160)
              THEN 3 ELSE 0
    ELSE 0

Utf8CodePoint(b, i, n) ==
    CASE n = 1 -> b[i]
      [] n = 2 -> (b[i] - 192) * 64 + (b[i + 1] - 128)
      [] n = 3 -> (b[i] - 224) * 4096 + (b[i + 1] - 128) * 64 + (b[i + 2] - 128)

\* the decoded text from byte i on, or <<-1>> at the first invalid byte
RECURSIVE DecodeFrom(_, _, _)
DecodeFrom(b, i, e) ==
    IF i > Len(b) THEN <<>>
    ELSE LET n == IF e = "utf-8" THEN Utf8SeqLen(b, i)
                  ELSE IF e = "ascii" /\ b[i] >= 128 THEN 0
                  ELSE 1
         IN  IF n = 0 THEN <<-1>>
             ELSE LET rest == DecodeFrom(b, i + n, e)
                  IN  IF rest = <<-1>> THEN <<-1>>
                      ELSE <<IF e = "utf-8" THEN Utf8CodePoint(b, i, n) ELSE b[i]>> \o rest

\* bytes.decode: the text, or UnicodeDecodeError
decode(b, e) ==
    LET t == DecodeFrom(b, 1, e)
    IN  IF t = <<-1>> THEN [ok |-> FALSE, text |-> <<>>]
        ELSE [ok |-> TRUE, text |-> t]

(***************************************************************************)
(* ensure_unicode.  A value is [type, v]: its Python type and its content. *)
(***************************************************************************)
\* a mutated normalizer that decodes as UTF-8 whatever encoding is passed
ensure_unicode_utf8(value, encoding) ==
    IF value.type = "bytes"
    THEN LET d == decode(value.v, "utf-8")
         IN  IF d.ok THEN [raised |-> None, value |-> [type |-> "str", v |-> d.text]]
             ELSE [raised |-> "UnicodeDecodeError", value |-> NoValue]
    ELSE IF value.type = "list" THEN [raised |-> "TypeError", value |-> NoValue]
    ELSE [raised |-> None, value |-> value]

ensure_unicode(value, encoding) ==
    IF value.type = "bytes"
    THEN LET d == decode(value.v, encoding)
         IN  IF d.ok THEN [raised |-> None, value |-> [type |-> "str", v |-> d.text]]
             ELSE [raised |-> "UnicodeDecodeError", value |-> NoValue]
    ELSE IF value.type = "list" THEN [raised |-> "TypeError", value |-> NoValue]
    ELSE [raised |-> None, value |-> value]

(***************************************************************************)
(* deprecated: every decorated function has its own function_wrapper, and  *)
(* every function_wrapper its own deprecated_items set.                    *)
(***************************************************************************)
\* the decorated functions; the first two are distinct functions of one name
Wrappers == {"w1", "w2", "w3"}

func_name(w) == IF w = "w3" THEN "old_g" ELSE "old_f"

\* the wrapped function's result on argument x
func(w, x) == <<func_name(w), w, x>>

\* line 51: func_name not in function_wrapper.deprecated_items
NotYetWarned(items, name) == name \notin items

\* a mutated bookkeeping step that forgets to record the function
AddDeprecatedItemForgets(items, name) == items

\* line 54: function_wrapper.deprecated_items.add(func_name)
AddDeprecatedItem(items, name) == items \cup {name}

(***************************************************************************)
(* fail_after: versions are strings of digits and dots.                    *)
(***************************************************************************)
Dot == 46

\* str.split("."), from position i on with the current piece in acc
RECURSIVE SplitFrom(_, _, _)
SplitFrom(s, i, acc) ==
    IF i > Len(s) THEN <<acc>>
    ELSE IF s[i] = Dot THEN <<acc>> \o SplitFrom(s, i + 1, <<>>)
    ELSE SplitFrom(s, i + 1, Append(acc, s[i]))

split(s) == SplitFrom(s, 1, <<>>)

\* int(x) for a string of decimal digits
RECURSIVE int(_)
int(x) ==
    IF x = <<>> THEN 0
    ELSE int(SubSeq(x, 1, Len(x) - 1)) * 10 + (x[Len(x)] - 48)

\* [int(x) for x in v.split(".")]
IntComponents(v) == LET parts == split(v) IN [k \in DOMAIN parts |-> int(parts[k])]

\* a mutated comparison: strictly less
RECURSIVE ListLt(_, _)
ListLt(a, b) ==
    IF b = <<>> THEN FALSE
    ELSE IF a = <<>> THEN TRUE
    ELSE IF a[1] # b[1] THEN a[1] < b[1]
    ELSE ListLt(Tail(a), Tail(b))

\* a <= b on Python lists: the first differing items decide, and a list that
\* runs out first is the smaller
RECURSIVE ListLe(_, _)
ListLe(a, b) ==
    IF a = <<>> THEN TRUE
    ELSE IF b = <<>> THEN FALSE
    ELSE IF a[1] # b[1] THEN a[1] < b[1]
    ELSE ListLe(Tail(a), Tail(b))

\* line 26: the removal deadline has been reached
DeadlineReached(v, cur) == ListLe(IntComponents(v), IntComponents(cur))

\* what the decorated test body returns
TestBodyResult == "test result"

(***************************************************************************)
(* Text-mode streams: newline translation (newline=None) and gzip framing. *)
(***************************************************************************)
\* os.linesep of the platform (POSIX)
linesep == <<10>>

\* writing in text mode: every "\n" becomes os.linesep
RECURSIVE WriteNewlines(_)
WriteNewlines(s) ==
    IF s = <<>> THEN <<>>
    ELSE (IF Head(s) = 10 THEN linesep ELSE <<Head(s)>>) \o WriteNewlines(Tail(s))

\* reading in text mode: "\r\n" and a lone "\r" become "\n"
RECURSIVE ReadNewlines(_)
ReadNewlines(s) ==
    IF s = <<>> THEN <<>>
    ELSE IF Head(s) = 13
         THEN IF Len(s) >= 2 /\ s[2] = 10
              THEN <<10>> \o ReadNewlines(SubSeq(s, 3, Len(s)))
              ELSE <<10>> \o ReadNewlines(Tail(s))
    ELSE <<Head(s)>> \o ReadNewlines(Tail(s))

\* the two magic bytes that open a gzip member
GzipMagic == <<31, 139>>

IsGzipStream(b) == Len(b) >= 2 /\ SubSeq(b, 1, 2) = GzipMagic

\* a gzip member: the magic, the data, and the trailer holding the data's
\* length (the deflate coding of the data is left out)
GzipCompress(b) == GzipMagic \o b \o <<Len(b) % 256>>

\* reading a gzip file to its end: an empty file reads as no data, a file
\* that does not open with the magic is not a gzip file
GzipDecompress(b) ==
    IF b = <<>> THEN [outcome |-> "ok", bytes |-> <<>>]
    ELSE IF ~IsGzipStream(b) THEN [outcome |-> "BadGzipFile", bytes |-> <<>>]
    ELSE IF Len(b) < 3 THEN [outcome |-> "EOFError", bytes |-> <<>>]
    ELSE LET data == SubSeq(b, 3, Len(b) - 1)
         IN  IF b[Len(b)] # Len(data) % 256
             THEN [outcome |-> "BadGzipFile", bytes |-> <<>>]
             ELSE [outcome |-> "ok", bytes |-> data]

\* fobj.read() of a text-mode stream over bytes b
ReadText(b, encoding) ==
    LET d == decode(b, encoding)
    IN  IF d.ok THEN [outcome |-> "ok", data |-> ReadNewlines(d.text)]
        ELSE [outcome |-> "UnicodeDecodeError", data |-> <<>>]

(***************************************************************************)
(* load_file and write_file                                                *)
(***************************************************************************)
\* str.lower(), for code points below 256
Lower(c) == IF c \in (65..90) \cup (192..214) \cup (216..222) THEN c + 32 ELSE c

\* filename[-3:]
LastThree(s) == IF Len(s) <= 3 THEN s ELSE SubSeq(s, Len(s) - 2, Len(s))

\* ".gz"
DotGz == <<46, 103, 122>>

\* a mutated suffix test that forgets .lower()
IsGzipNameCaseSensitive(s) == LastThree(s) = DotGz

\* line 112: filename[-3:].lower() == ".gz"
IsGzipName(s) ==
    LET t == LastThree(s) IN [i \in DOMAIN t |-> Lower(t[i])] = DotGz

\* lines 109-110: a Path is replaced by its string form; a filename is
\* [kind, s], s being the string itself or the Path's string form
PathStr(filename) == filename.s

\* __gzip_read: gzip.open(filename, mode="rt", encoding=encoding), fobj.read()
gzip_read(b, encoding) ==
    LET z == GzipDecompress(b)
    IN  IF z.outcome = "ok" THEN ReadText(z.bytes, encoding)
        ELSE [outcome |-> z.outcome, data |-> <<>>]

\* a mutated scope exit that closes the stream on normal exit only
WithExitNoFinally(open, h, exception) == IF exception THEN open ELSE open \ {h}

\* leaving a `with` block: the stream is closed, exception or not
WithExit(open, h, exception) == open \ {h}

\* a mutated choice that passes the caller's encoding to gzip.open as well
WriteEncodingAlways(encoding, gzipped, loc) == encoding

\* the encoding a write uses: gzip.open(filepath, "wt") is given none and
\* falls back on the platform's, open(filepath, "w", encoding=encoding) uses
\* the caller's
WriteEncoding(encoding, gzipped, loc) == IF gzipped THEN loc ELSE encoding

\* the bytes write_file leaves in the file, and whether fobj.write succeeded
\* (a write that cannot encode its text leaves the truncated, empty stream)
WrittenBytes(encoding, gzipped, data, loc) ==
    LET e == encode(WriteNewlines(data), WriteEncoding(encoding, gzipped, loc))
    IN  [ok |-> e.ok,
         bytes |-> IF gzipped THEN GzipCompress(e.bytes) ELSE e.bytes]

(***************************************************************************)
(* Idle values: what a component's variables hold in the specifications    *)
(* of the other components.                                                *)
(***************************************************************************)
CodecIdle ==
    /\ locale = "utf-8"
    /\ fs = <<>>
    /\ written = <<>>
    /\ ctx = <<>>
    /\ handles = {}
    /\ res = [op |-> "none"]

EuIdle ==
    /\ eu_origin = None
    /\ eu_value = None
    /\ eu_encoding = None
    /\ eu_first = None
    /\ eu_result = None
    /\ eu_pc = "idle"

TokIdle ==
    /\ text = <<>>
    /\ words = <<>>
    /\ tok_pc = "idle"

DepIdle ==
    /\ deprecated_items = <<>>
    /\ warnings_issued = <<>>
    /\ calls = <<>>
    /\ invoked = <<>>
    /\ last_call = [nth |-> 0]

VerIdle ==
    /\ version = <<>>
    /\ current_version = <<>>
    /\ test_runs = 0
    /\ test_outcome = [raised |-> "idle", value |-> None]

(***************************************************************************)
(* Specification of the tokenizer: a text is drawn, then tokenized.        *)
(***************************************************************************)
TokMaxLen == 4

\* "a", "B", "9", apostrophe, space, "?"
TokAlphabet == {97, 66, 57, Apostrophe, 32, 63}

TokInit ==
    /\ text \in SeqsUpTo(TokAlphabet, TokMaxLen)
    /\ words = <<>>
    /\ tok_pc = "ready"
    /\ CodecIdle /\ EuIdle /\ DepIdle /\ VerIdle

Tokenize ==
    /\ tok_pc = "ready"
    /\ words' = parse_into_words(text)
    /\ tok_pc' = "done"
    /\ UNCHANGED <<text, codec_vars, eu_vars, dep_vars, ver_vars>>

TokNext == Tokenize

TokSpec == TokInit /\ [][TokNext]_vars

\* Reference tokenizer: the maximal runs of word-or-apostrophe characters,
\* each cut down to the span from its first to its last word character.
IsRun(t, i, j) ==
    /\ i <= j
    /\ \A k \in i..j : IsWordOrApostrophe(t[k])
    /\ (i = 1 \/ ~IsWordOrApostrophe(t[i - 1]))
    /\ (j = Len(t) \/ ~IsWordOrApostrophe(t[j + 1]))

RunWordPositions(t, i, j) == {k \in i..j : IsWordChar(t[k])}

Least(S) == CHOOSE x \in S : \A y \in S : x <= y
Greatest(S) == CHOOSE x \in S : \A y \in S : y <= x

\* the stripped runs that are left non-empty, as <<first, last>> positions
StrippedRuns(t) ==
    {<<Least(RunWordPositions(t, r[1], r[2])), Greatest(RunWordPositions(t, r[1], r[2]))>> :
        r \in {q \in (1..Len(t)) \X (1..Len(t)) :
                  IsRun(t, q[1], q[2]) /\ RunWordPositions(t, q[1], q[2]) # {}}}

ReferenceWords(t) ==
    LET S == StrippedRuns(t)
        Nth(k) == CHOOSE r \in S : Cardinality({q \in S : q[1] < r[1]}) = k - 1
    IN  [k \in 1..Cardinality(S) |-> SubSeq(t, Nth(k)[1], Nth(k)[2])]

\* C6: the tokenizer's result is the list, left to right, of the maximal runs
\* of word-or-apostrophe characters with their leading and trailing
\* apostrophes stripped and the empty ones dropped; so every token starts and
\* ends with a word character, holds only word characters and apostrophes, and
\* a text without a word character gives the empty list.
TokenizerMatchesReference ==
    tok_pc = "done" =>
        /\ words = ReferenceWords(text)
        /\ \A n \in DOMAIN words :
              /\ Len(words[n]) >= 1
              /\ IsWordChar(words[n][1])
              /\ IsWordChar(words[n][Len(words[n])])
              /\ \A k \in DOMAIN words[n] : IsWordOrApostrophe(words[n][k])
        /\ ((\A k \in DOMAIN text : ~IsWordChar(text[k])) => words = <<>>)

\* a text whose leading apostrophe is stripped while an internal one is kept
TokenizerWitness ==
    /\ tok_pc = "done"
    /\ Len(text) >= 1
    /\ text[1] = Apostrophe
    /\ \E n \in DOMAIN words : Apostrophe \in Range(words[n])

(***************************************************************************)
(* Specification of the input normalizer: an argument is built from a text *)
(* (the text itself, its encoding under some codec, or a list or tuple of  *)
(* texts), ensure_unicode is called, and called again on its own result.   *)
(***************************************************************************)
EuMaxLen == 2

\* "a", e-acute (two UTF-8 bytes, one Latin-1 byte), euro sign (three UTF-8 bytes)
EuAlphabet == {97, 233, 8364}

EuShapes == {"str", "bytes", "list", "tuple"}

EuArgument(o) ==
    CASE o.shape = "str"   -> [type |-> "str", v |-> o.text]
      [] o.shape = "bytes" -> [type |-> "bytes", v |-> encode(o.text, o.via).bytes]
      [] OTHER             -> [type |-> o.shape, v |-> <<o.text, o.text>>]

EuInit ==
    /\ eu_origin \in {o \in [text : SeqsUpTo(EuAlphabet, EuMaxLen), via : Encodings, shape : EuShapes] :
                         o.shape = "bytes" => encode(o.text, o.via).ok}
    /\ eu_value = EuArgument(eu_origin)
    /\ eu_encoding \in Encodings
    /\ eu_first = [raised |-> None, value |-> NoValue]
    /\ eu_result = [raised |-> None, value |-> NoValue]
    /\ eu_pc = "ready"
    /\ CodecIdle /\ TokIdle /\ DepIdle /\ VerIdle

EnsureUnicode ==
    /\ eu_pc = "ready"
    /\ eu_first' = ensure_unicode(eu_value, eu_encoding)
    /\ eu_result' = eu_first'
    /\ eu_pc' = "done"
    /\ UNCHANGED <<eu_origin, eu_value, eu_encoding, codec_vars, tok_vars, dep_vars, ver_vars>>

\* the caller passes the returned value through ensure_unicode once more
EnsureUnicodeAgain ==
    /\ eu_pc = "done"
    /\ eu_first.raised = None
    /\ eu_result' = ensure_unicode(eu_first.value, eu_encoding)
    /\ eu_pc' = "again"
    /\ UNCHANGED <<eu_origin, eu_value, eu_encoding, eu_first, codec_vars, tok_vars, dep_vars, ver_vars>>

EuNext == EnsureUnicode \/ EnsureUnicodeAgain

EuSpec == EuInit /\ [][EuNext]_vars

\* C4: every aggregate argument (a list, and likewise any other collection
\* such as a tuple) makes ensure_unicode fail with TypeError and return nothing.
ShapeGuardRejectsAggregates ==
    (eu_pc = "done" /\ eu_value.type \in {"list", "tuple"}) =>
        (eu_first.raised = "TypeError" /\ eu_first.value = NoValue)

\* C5: the encoding of a text S under E is normalized back to S under E, a text
\* is returned unchanged whatever E is, and normalizing the result again
\* changes nothing.
NormalizerRoundTrip ==
    /\ eu_pc \in {"done", "again"} =>
          /\ (eu_origin.shape = "bytes" /\ eu_origin.via = eu_encoding) =>
                eu_first = [raised |-> None, value |-> [type |-> "str", v |-> eu_origin.text]]
          /\ eu_origin.shape = "str" =>
                eu_first = [raised |-> None, value |-> eu_value]
    /\ eu_pc = "again" => eu_result = eu_first

\* a text with a non-ASCII character, encoded as Latin-1, normalized twice
NormalizerWitness ==
    /\ eu_pc = "again"
    /\ eu_origin.shape = "bytes"
    /\ eu_origin.via = "latin-1"
    /\ eu_encoding = "latin-1"
    /\ 233 \in Range(eu_origin.text)
    /\ eu_result.value.v = eu_origin.text

(***************************************************************************)
(* Specification of deprecated: the wrappers are called in any order.      *)
(***************************************************************************)
MaxCalls == 2

DepArgs == {"x", "y"}

DepInit ==
    /\ deprecated_items = [w \in Wrappers |-> {}]
    /\ warnings_issued = [w \in Wrappers |-> 0]
    /\ calls = [w \in Wrappers |-> 0]
    /\ invoked = [w \in Wrappers |-> 0]
    /\ last_call = [nth |-> 0]
    /\ CodecIdle /\ EuIdle /\ TokIdle /\ VerIdle

function_wrapper(w, x) ==
    /\ calls[w] < MaxCalls
    /\ LET name == func_name(w)
           warn == NotYetWarned(deprecated_items[w], name)
       IN  /\ warnings_issued' =
                 IF warn THEN [warnings_issued EXCEPT ![w] = @ + 1] ELSE warnings_issued
           /\ deprecated_items' =
                 IF warn THEN [deprecated_items EXCEPT ![w] = AddDeprecatedItem(@, name)]
                 ELSE deprecated_items
           /\ invoked' = [invoked EXCEPT ![w] = @ + 1]
           /\ calls' = [calls EXCEPT ![w] = @ + 1]
           /\ last_call' = [wrapper |-> w, arg |-> x, nth |-> calls[w] + 1,
                            warned |-> warn, passed |-> x, ret |-> func(w, x)]
    /\ UNCHANGED <<codec_vars, eu_vars, tok_vars, ver_vars>>

DepNext == \E w \in Wrappers, x \in DepArgs : function_wrapper(w, x)

DepSpec == DepInit /\ [][DepNext]_vars

VerMaxComponents == 2

\* "0", "1", "2", "10", "01"
VerComponents == {<<48>>, <<49>>, <<50>>, <<49, 48>>, <<48, 49>>}

RECURSIVE JoinDots(_)
JoinDots(cs) ==
    IF Len(cs) = 1 THEN cs[1] ELSE cs[1] \o <<Dot>> \o JoinDots(Tail(cs))

VersionStrings ==
    {JoinDots(cs) : cs \in UNION {[1..k -> VerComponents] : k \in 1..VerMaxComponents}}

VerInit ==
    /\ version \in VersionStrings
    /\ current_version \in VersionStrings
    /\ test_runs = 0
    /\ test_outcome = [raised |-> "not run", value |-> None]
    /\ CodecIdle /\ EuIdle /\ TokIdle /\ DepIdle

test_inner ==
    /\ test_outcome.raised = "not run"
    /\ IF DeadlineReached(version, current_version)
       THEN /\ test_outcome' = [raised |-> "AssertionError", value |-> None]
            /\ test_runs' = test_runs
       ELSE /\ test_outcome' = [raised |-> None, value |-> TestBodyResult]
            /\ test_runs' = test_runs + 1
    /\ UNCHANGED <<version, current_version, codec_vars, eu_vars, tok_vars, dep_vars>>

VerNext == test_inner

VerSpec == VerInit /\ [][VerNext]_vars

\* Reference reading of a dotted version: the k-th component lies between the
\* (k-1)-th and the k-th dot, and is worth the sum of its digits' place values.
DotPositions(s) == {i \in DOMAIN s : s[i] = Dot}

RECURSIVE Pow10(_)
Pow10(n) == IF n = 0 THEN 1 ELSE 10 * Pow10(n - 1)

RECURSIVE PlaceValueSum(_, _, _)
PlaceValueSum(s, lo, hi) ==
    IF lo > hi THEN 0
    ELSE (s[lo] - 48) * Pow10(hi - lo) + PlaceValueSum(s, lo + 1, hi)

ReferenceComponents(s) ==
    LET D == DotPositions(s)
        Bounds == D \cup {0, Len(s) + 1}
        Start(k) == CHOOSE i \in Bounds : Cardinality({j \in Bounds : j < i}) = k - 1
    IN  [k \in 1..(Cardinality(D) + 1) |-> PlaceValueSum(s, Start(k) + 1, Start(k + 1) - 1)]

\* a is equal to or later than b, as sequences of integers: equal, or greater
\* at the first place they differ, or a proper extension of b
EqualOrLater(a, b) ==
    \/ a = b
    \/ \E k \in 1..Len(a) :
          /\ \A j \in 1..(k - 1) : j <= Len(b) /\ a[j] = b[j]
          /\ (k = Len(b) + 1 \/ (k <= Len(b) /\ a[k] > b[k]))

\* C8: the decorated test raises AssertionError without running its body
\* whenever the package version is equal to or later than the deadline, the two
\* read as sequences of integer components, and otherwise runs the body once
\* and returns its result.
RemovalDeadline ==
    test_outcome.raised # "not run" =>
        IF EqualOrLater(ReferenceComponents(current_version), ReferenceComponents(version))
        THEN test_outcome.raised = "AssertionError" /\ test_runs = 0
        ELSE test_outcome = [raised |-> None, value |-> TestBodyResult] /\ test_runs = 1

\* the package version equals the deadline, written with other digits and
\* compared component by component: "1.01" against "1.1"
RemovalDeadlineWitness ==
    /\ test_outcome.raised # "not run"
    /\ version # current_version
    /\ Len(version) # Len(current_version)
    /\ ReferenceComponents(version) = ReferenceComponents(current_version)
    /\ test_outcome.raised = "AssertionError"

(***************************************************************************)
(* Specification of the codec layer: one caller writes files and reads     *)
(* them in `with load_file(...)` blocks, which it may nest and inside of   *)
(* which it may write.                                                     *)
(***************************************************************************)
MaxDepth == 2

\* "a.gz", "gz"
WritePaths == {<<97, 46, 103, 122>>, <<103, 122>>}

\* and "a.GZ", "agz", which are never written
Paths == WritePaths \cup {<<97, 46, 71, 90>>, <<97, 103, 122>>}

\* "", "a", e-acute
FileTexts == {<<>>, <<97>>, <<233>>}

NoFile == [exists |-> FALSE, bytes |-> <<>>]

NoWrite == [ok |-> FALSE, encoding |-> "", gzipped |-> FALSE, data |-> <<>>]

CodecInit ==
    /\ locale \in Encodings
    /\ fs = [p \in Paths |-> NoFile]
    /\ written = [p \in Paths |-> NoWrite]
    /\ ctx = <<>>
    /\ handles = {}
    /\ res = [op |-> "none"]
    /\ EuIdle /\ TokIdle /\ DepIdle /\ VerIdle

write_file(filepath, encoding, gzipped, data) ==
    LET w == WrittenBytes(encoding, gzipped, data, locale)
    IN  /\ fs' = [fs EXCEPT ![filepath] = [exists |-> TRUE, bytes |-> w.bytes]]
        /\ written' = [written EXCEPT ![filepath] =
                          IF w.ok
                          THEN [ok |-> TRUE, encoding |-> encoding,
                                gzipped |-> gzipped, data |-> data]
                          ELSE NoWrite]
        /\ res' = [op |-> "write", path |-> filepath, encoding |-> encoding,
                   gzipped |-> gzipped, data |-> data,
                   outcome |-> IF w.ok THEN "ok" ELSE "UnicodeEncodeError",
                   ret |-> None]
        /\ UNCHANGED <<locale, ctx, handles, eu_vars, tok_vars, dep_vars, ver_vars>>

\* entering `with load_file(filename, encoding) as data`: up to the yield
LoadEnter(filename, encoding) ==
    /\ Len(ctx) < MaxDepth
    /\ LET name == PathStr(filename)
           branch == IF IsGzipName(name) THEN "gzip" ELSE "plain"
           h == Len(ctx) + 1
           r == IF branch = "gzip" THEN gzip_read(fs[name].bytes, encoding)
                ELSE ReadText(fs[name].bytes, encoding)
           call == [op |-> "load", path |-> name, kind |-> filename.kind,
                    encoding |-> encoding, branch |-> branch]
       IN  IF ~fs[name].exists
           THEN /\ res' = call @@ [outcome |-> "FileNotFoundError",
                                   yielded |-> NoValue]
                /\ UNCHANGED <<ctx, handles>>
           ELSE IF r.outcome # "ok"
           THEN /\ res' = call @@ [outcome |-> r.outcome, yielded |-> NoValue]
                /\ handles' = WithExit(handles \cup {h}, h, TRUE)
                /\ UNCHANGED ctx
           ELSE /\ res' = call @@ [outcome |-> "ok",
                                   yielded |-> [type |-> "str", v |-> r.data]]
                /\ handles' = handles \cup {h}
                /\ ctx' = Append(ctx, [h |-> h])
    /\ UNCHANGED <<locale, fs, written, eu_vars, tok_vars, dep_vars, ver_vars>>

\* leaving the innermost block, normally or by an exception raised in it
LoadExit(exception) ==
    /\ ctx # <<>>
    /\ handles' = WithExit(handles, ctx[Len(ctx)].h, exception)
    /\ ctx' = SubSeq(ctx, 1, Len(ctx) - 1)
    /\ res' = [op |-> "exit", exception |-> exception]
    /\ UNCHANGED <<locale, fs, written, eu_vars, tok_vars, dep_vars, ver_vars>>

CodecNext ==
    \/ \E p \in WritePaths, e \in Encodings, g \in BOOLEAN, d \in FileTexts :
          write_file(p, e, g, d)
    \/ \E p \in Paths, k \in {"str", "Path"}, e \in Encodings :
          LoadEnter([kind |-> k, s |-> p], e)
    \/ \E x \in BOOLEAN : LoadExit(x)

CodecSpec == CodecInit /\ [][CodecNext]_vars

\* the path ends in the literal suffix ".gz"
EndsWithDotGz(p) ==
    /\ Len(p) >= 3
    /\ p[Len(p) - 2] = 46 /\ p[Len(p) - 1] = 103 /\ p[Len(p)] = 122

\* the path has three last characters and they are ".gz" in any letter case
HasGzSuffix(p) ==
    /\ Len(p) >= 3
    /\ p[Len(p) - 2] = 46 /\ p[Len(p) - 1] \in {103, 71} /\ p[Len(p)] \in {122, 90}

\* the last load_file was of a path whose latest write_file succeeded, used
\* the storage mode that matches the path's suffix, and used the load's encoding
LoadedAfterMatchingWrite ==
    /\ res.op = "load"
    /\ written[res.path].ok
    /\ written[res.path].encoding = res.encoding
    /\ written[res.path].gzipped <=> EndsWithDotGz(res.path)

\* C1: text written to a path, compressed exactly when the path ends in ".gz",
\* and read back from it under the same encoding comes back unchanged.
StorageRoundTrip ==
    LoadedAfterMatchingWrite =>
        /\ res.outcome = "ok"
        /\ res.yielded = [type |-> "str", v |-> written[res.path].data]

\* C2: the stream a load_file opened is closed as soon as its context is left,
\* by the block's normal end, by an exception raised while reading or by one
\* raised in the block: the open streams are exactly those of the blocks the
\* caller is still inside of, none is open once it is outside of all of them,
\* and what a block is given is text.
ScopedAcquisition ==
    /\ handles = {ctx[i].h : i \in DOMAIN ctx}
    /\ ctx = <<>> => handles = {}
    /\ res.op = "load" =>
          IF res.outcome = "ok" THEN res.yielded.type = "str"
          ELSE res.yielded = NoValue

\* an exception raised in the caller's block has just left the outermost
\* context, and no stream is open
ScopedAcquisitionWitness ==
    /\ res.op = "exit"
    /\ res.exception
    /\ ctx = <<>>
    /\ handles = {}

\* the branch load_file took is decided by the suffix alone
SuffixDecidesBranch ==
    res.op = "load" => (res.branch = "gzip" <=> HasGzSuffix(res.path))

\* the last load_file took the compressed branch on an existing file that is
\* not a gzip stream
PlainFileReadAsGzip ==
    /\ res.op = "load"
    /\ res.branch = "gzip"
    /\ fs[res.path].exists
    /\ ~IsGzipStream(fs[res.path].bytes)

\* C3 as stated: load_file takes the compressed branch exactly when the last
\* three characters of the path are ".gz" in any letter case, and a plain file
\* under such a name ends in a decompression error instead of yielding its text.
SuffixDispatchAsStated ==
    /\ SuffixDecidesBranch
    /\ PlainFileReadAsGzip => res.outcome = "BadGzipFile"

\* C3 as amended: the same dispatch; a plain file under such a name ends in a
\* decompression error when it is not empty, and an empty one yields the empty
\* text.
SuffixDispatch ==
    /\ SuffixDecidesBranch
    /\ PlainFileReadAsGzip =>
          IF fs[res.path].bytes = <<>>
          THEN res.outcome = "ok" /\ res.yielded = [type |-> "str", v |-> <<>>]
          ELSE res.outcome = "BadGzipFile" /\ res.yielded = NoValue

\* a Path object naming "a.gz", written uncompressed with a non-empty text,
\* is read on the compressed branch and fails
SuffixDispatchWitness ==
    /\ res.op = "load"
    /\ res.kind = "Path"
    /\ res.path = <<97, 46, 103, 122>>
    /\ written[res.path].ok
    /\ ~written[res.path].gzipped
    /\ written[res.path].data # <<>>
    /\ res.outcome = "BadGzipFile"

LastWriteWins ==
    /\ (LoadedAfterMatchingWrite /\ res.outcome = "ok") =>
          res.yielded.v = written[res.path].data
    /\ \A p \in Paths :
          written[p].ok =>
             fs[p].bytes = WrittenBytes(written[p].encoding, written[p].gzipped,
                                        written[p].data, locale).bytes

====
